---- MODULE Spec2Model ----
(***************************************************************************)
(* The three libgpiod example programs of the repository as one state      *)
(* machine.                                                                *)
(*                                                                         *)
(*   "gpio1"  src/unnamed/part_001 lines 300-476: two led_thread togglers  *)
(*   "gpio2"  src/gpio2.c: issuer_thread + receiver_thread, chip closed    *)
(*            by main                                                      *)
(*   "gpio3"  src/unnamed/part_001 lines 1-299: the same two tasks with    *)
(*            resource records, *_thread_terminate and atexit(reset_gpio)  *)
(*                                                                         *)
(* Threads are numbered as in all_threads[]: 0 is main, 1 and 2 are the    *)
(* two created threads.  Every libgpiod / libc call is one step of the     *)
(* calling thread; a call that the environment may fail is failed by       *)
(* choice (at most MaxFaults times in a run).                              *)
(***************************************************************************)
EXTENDS Integers, Sequences, FiniteSets, TLC

\* ---------------------------------------------------------------- bounds
MaxCount == 3
MaxRelayCount == 2
MaxFaults == 2
MaxIntr == 3
Duration == 2
MaxInvocations == 2

\* ------------------------------------------------------ program constants
GPIO_16 == 16
GPIO_17 == 17
GPIO_21 == 21
NUMBER_OF_THREAD == 2
NPins == 3

Lines == {GPIO_16, GPIO_17, GPIO_21}
Programs == {"gpio1", "gpio2", "gpio3"}
Threads == 0..NUMBER_OF_THREAD
Tasks == 1..NUMBER_OF_THREAD

\* int pins[3] = { GPIO_16, GPIO_17, GPIO_21 } of reset_gpio
pins == <<GPIO_16, GPIO_17, GPIO_21>>

\* A NULL struct gpiod_line pointer; a non-NULL one is the line's offset
\* (gpiod_chip_get_line hands out one line object per offset of the chip).
NULL == 0

\* The values an int that was never assigned may hold.
IndeterminateInts == {0, 5}

VARIABLES
    prog,        \* which of the three programs runs
    count,       \* count[t]: args->count of thread t
    CHIP,        \* the chip handle: "NULL", "open" or "closed"
    registered,  \* how many times atexit(reset_gpio) registered the handler
    line,        \* line[l]: the chip's line l (requested, by whom, direction, level, edge events)
    events,      \* edge events queued on the watched line
    exiting,     \* exit() was called and has not finished
    ended,       \* the process has ended
    status,      \* its exit status (-1 while it runs)
    resetCalls,  \* how many times reset_gpio was entered
    closeCalls,  \* how many times gpiod_chip_close was called
    faults,      \* failures chosen so far
    pc,          \* pc[t]: where thread t stands
    loc,         \* loc[t]: the locals of thread t
    slept,       \* slept[t]: time slept in the current cycle (history)
    intr,        \* EINTR returns chosen so far
    log          \* log[t]: the library calls thread t issued (history)

cfgVars == <<prog, count>>
hwVars == <<line, events>>
exitVars == <<exiting, ended, status, resetCalls>>
sleepVars == <<slept, intr>>
vars == <<prog, count, CHIP, registered, line, events, exiting, ended, status,
          resetCalls, closeCalls, faults, pc, loc, slept, intr, log>>

\* ------------------------------------------------------------ parameters

\* struct issuer_args / receiver_args as main fills them in
Kind(t) == IF prog = "gpio1" \/ t = 1 THEN "toggler" ELSE "relay"

line_id(t) ==
    IF prog = "gpio1" THEN (IF t = 1 THEN GPIO_17 ELSE GPIO_16) ELSE GPIO_16

receiver_line_id == GPIO_21

controller_line_id == GPIO_17

\* The function a thread runs, for the history.
Fn(t) ==
    IF t = 0 THEN "main"
    ELSE IF prog = "gpio1" THEN "led_thread"
    ELSE IF t = 1 THEN "issuer_thread" ELSE "receiver_thread"

\* ------------------------------------------------------------- the chip

FreeLine == [req |-> FALSE, owner |-> -1, dir |-> "in", level |-> 0, edge |-> FALSE]

\* The issuer's output (line 16) is wired to the receiver's input (line 21) in
\* the two-task programs: a level change on 16 is an edge on 21.
Edges(ln, l, v) ==
    IF prog # "gpio1" /\ l = GPIO_16 /\ ln[GPIO_21].edge /\ ln[l].level # v
    THEN 1 ELSE 0

\* A successful gpiod_line_request_output / _input / _both_edges_events.
Requested(ln, l, t, dir, v, edge) ==
    [ln EXCEPT ![l] = [req |-> TRUE, owner |-> t, dir |-> dir,
                       level |-> IF dir = "out" THEN v ELSE ln[l].level,
                       edge |-> edge]]

\* gpiod_line_release: frees the line object if it is requested; the
\* direction and the level of the pin stay as they are.
Released(ln, l) ==
    IF l # NULL /\ ln[l].req
    THEN [ln EXCEPT ![l].req = FALSE, ![l].owner = -1, ![l].edge = FALSE]
    ELSE ln

RECURSIVE ReleasedAll(_, _)
ReleasedAll(ln, hs) ==
    IF hs = <<>> THEN ln ELSE ReleasedAll(Released(ln, Head(hs)), Tail(hs))

\* ---------------------------------------------------------- the history

\* One call as it is issued: own says the caller holds the line at that
\* moment, other that another thread does.
Entry(t, by, op, l, v, ok) ==
    [op |-> op, line |-> l, val |-> v, ok |-> ok, chip |-> CHIP, by |-> by,
     own |-> (l # NULL /\ line[l].req /\ line[l].owner = t),
     other |-> (l # NULL /\ line[l].req /\ line[l].owner # t), msg |-> ""]

RECURSIVE ReleaseEntries(_, _, _, _)
ReleaseEntries(t, by, ln, hs) ==
    IF hs = <<>> THEN <<>>
    ELSE LET l == Head(hs) IN
         <<[op |-> "release", line |-> l, val |-> 0, ok |-> TRUE, chip |-> CHIP,
            by |-> by, msg |-> "",
            own |-> (l # NULL /\ ln[l].req /\ ln[l].owner = t),
            other |-> (l # NULL /\ ln[l].req /\ ln[l].owner # t)]>>
         \o ReleaseEntries(t, by, Released(ln, l), Tail(hs))

\* ------------------------------------------------------------------ Init

InitLoc ==
    [cycle |-> 0, issuer |-> NULL, receiver |-> NULL, controller |-> NULL,
     state |-> 0, d |-> "duration", r |-> "remaining",
     duration |-> Duration, remaining |-> -1, remaining_again |-> -1,
     i |-> 0, l |-> NULL, todo |-> 0, site |-> ""]

\* args->count of the two threads: both togglers of gpio1 get the same count
\* (50 and 50); the receiver is given fewer cycles than the issuer makes
\* edges (3 for 5, 10 for 20).
Counts ==
    IF prog = "gpio1"
    THEN {[t \in Tasks |-> n] : n \in 0..MaxCount}
    ELSE {c \in [Tasks -> 0..MaxCount] :
            /\ c[2] <= MaxRelayCount
            /\ c[2] < c[1] \/ c[1] = 0
            /\ c[1] <= c[2] + 2}

Init ==
    /\ prog \in Programs
    /\ count \in Counts
    /\ CHIP = "NULL"
    /\ registered = 0
    /\ line = [l \in Lines |-> FreeLine]
    /\ events = 0
    /\ exiting = FALSE
    /\ ended = FALSE
    /\ status = -1
    /\ resetCalls = 0
    /\ closeCalls = 0
    /\ faults = 0
    /\ pc = [t \in Threads |-> IF t = 0 THEN "open" ELSE "idle"]
    \* int state; of receiver_thread is never initialised
    /\ \E s \in IndeterminateInts :
           loc = [t \in Threads |->
                    [InitLoc EXCEPT !.state = IF Kind(t) = "relay" THEN s ELSE 0]]
    /\ slept = [t \in Threads |-> 0]
    /\ intr = 0
    /\ log = [t \in Threads |-> <<>>]

\* A failure may be chosen while the budget lasts; a run whose sleeps were
\* interrupted sees one failure at most.
MayFail == faults < (IF intr = 0 THEN MaxFaults ELSE 1)

\* A signal may interrupt a sleep while the budget lasts and no call has failed.
MayInterrupt == intr < MaxIntr /\ faults = 0

Running(t) == ~ended /\ pc[t] \notin {"idle", "done", "blocked"}

\* ------------------------------------------------- error, exit, reset_gpio

\* exit(code) called by thread t.  The first call runs the registered
\* handlers (loc[t].todo counts those still to run) in the calling thread,
\* then the process ends.  A call made while another thread is inside
\* exit() is undefined; the C library takes a
\* handler off its list before it calls it, so the second caller finds none
\* left and either ends the process at once or blocks on the library's lock.
CallExit(t, code) ==
    /\ exiting' = TRUE
    /\ status' = code
    /\ \E how \in {"first", "block", "now"} :
         /\ (how = "first") <=> ~exiting
         /\ pc' = [pc EXCEPT ![t] =
                     IF how = "block" THEN "blocked"
                     ELSE IF how = "first" /\ registered > 0 THEN "rg_get"
                     ELSE "_exit"]
         /\ resetCalls' = IF how = "first" /\ registered > 0
                          THEN resetCalls + 1 ELSE resetCalls
         /\ loc' = [loc EXCEPT ![t].i = 0, ![t].l = NULL,
                               ![t].todo = IF how = "first" /\ registered > 0
                                           THEN registered - 1 ELSE 0]

\* issuer_thread_terminate: the handles it releases
issuer_thread_terminate(resource) ==
    IF resource.issuer # NULL THEN <<resource.issuer>> ELSE <<>>

\* receiver_thread_terminate without its second test: the controller is
\* never released
receiver_thread_terminate_receiver_only(resource) ==
    IF resource.receiver # NULL THEN <<resource.receiver>> ELSE <<>>

\* receiver_thread_terminate: the handles it releases, in order
receiver_thread_terminate(resource) ==
    (IF resource.receiver # NULL THEN <<resource.receiver>> ELSE <<>>)
    \o (IF resource.controller # NULL THEN <<resource.controller>> ELSE <<>>)

Terminator(t) ==
    IF Kind(t) = "toggler" THEN "issuer_thread_terminate" ELSE "receiver_thread_terminate"

\* The releases the code issues between a failed call at `site` and error().
FailReleases(t, site) ==
    IF t = 0 THEN <<>>
    ELSE IF prog = "gpio3" THEN
        (IF Kind(t) = "toggler" THEN issuer_thread_terminate(loc[t])
         ELSE receiver_thread_terminate(loc[t]))
    ELSE IF Kind(t) = "toggler" THEN
        (IF site = "req_out" \/ (prog = "gpio2" /\ site = "req_in")
         THEN <<loc[t].issuer>> ELSE <<>>)
    ELSE
        (IF site \in {"c_req", "r_req", "wait", "read", "flip"}
         THEN <<loc[t].receiver, loc[t].controller>>
         ELSE IF site = "c_req_in" THEN <<loc[t].controller>>
         ELSE <<>>)

\* The text error() prints for a failure at `site`.
Message(t, site) ==
    LET who == IF prog = "gpio1" THEN "" ELSE "issuer: " IN
    CASE site = "open" -> "cannot open the chip"
      [] site = "create1" -> "cannot create the thread (1)"
      [] site = "create2" -> "cannot create the thread (2)"
      [] site \in {"get", "get2"} -> who \o "cannot get the line"
      [] site = "req_out" ->
            IF prog = "gpio1" THEN "cannot request the output"
            ELSE "issuer: cannot set the line's mode to output"
      [] site = "req_in" -> "issuer: cannot set the line's mode to input"
      [] site \in {"set", "final_set"} -> who \o "cannot change the value of the output"
      [] site = "sleep_EFAULT" -> who \o "problem with copying information from user space"
      [] site = "sleep_EINVAL" -> who \o "unexpected period duration"
      [] site = "sleep_other" -> who \o "unexpected errno value"
      [] site = "r_get" -> "receiver: cannot get the line used to receive messages from the issuer"
      [] site \in {"c_get", "c_get2"} -> "receiver: cannot get the line used to control the LED"
      [] site \in {"c_req", "c_req_in"} -> "receiver: cannot set the line's mode to input"
      [] site = "r_req" -> "receiver: cannot set the line's callbacks"
      [] site = "wait" -> "receiver: error while waiting for an event"
      [] site = "read" -> "receiver: error while reading the event"
      [] site = "flip" -> "contoller: cannot change the value of the output"
      [] site = "rfinal_set" -> "receiver: cannot change the value of the output for the line that controls the LED"
      [] OTHER -> "?"

\* void error(char *message): the diagnostic, then exit(1); with the releases
\* the failing branch issues right before it.
Fatal(t) ==
    /\ Running(t) /\ pc[t] = "fatal"
    /\ LET site == loc[t].site
           hs == FailReleases(t, site)
           by == IF prog = "gpio3" THEN Terminator(t) ELSE Fn(t)
       IN /\ line' = ReleasedAll(line, hs)
          /\ events' = IF GPIO_21 \in {hs[k] : k \in 1..Len(hs)} THEN 0 ELSE events
          /\ log' = [log EXCEPT ![t] = @ \o ReleaseEntries(t, by, line, hs)
                        \o <<[Entry(t, "error", "error", NULL, 1, TRUE)
                               EXCEPT !.msg = Message(t, site)]>>]
    /\ CallExit(t, 1)
    /\ UNCHANGED <<cfgVars, CHIP, registered, ended, closeCalls, faults, sleepVars>>

\* A call through a NULL line pointer: the process is killed by SIGSEGV.
Segv(t) ==
    /\ Running(t) /\ pc[t] = "segv"
    /\ ended' = TRUE
    /\ status' = 139
    /\ UNCHANGED <<cfgVars, CHIP, registered, hwVars, exiting, resetCalls,
                   closeCalls, faults, pc, loc, sleepVars, log>>

\* reset_gpio's loop head with break in place of continue: a failure ends
\* the loop
ResetRequestInputBreak(t) ==
    /\ Running(t) /\ pc[t] = "rg_get"
    /\ LET l == pins[loc[t].i + 1] IN
       \E got \in BOOLEAN, f \in BOOLEAN :
         /\ (~got \/ f) => MayFail
         /\ f => (got /\ ~line[l].req)
         /\ faults' = IF ~got \/ f THEN faults + 1 ELSE faults
         /\ LET ok == got /\ ~f /\ ~line[l].req IN
            /\ log' = [log EXCEPT ![t] =
                         @ \o <<Entry(t, "reset_gpio", "get_line", l, 0, got)>>
                           \o (IF got
                               THEN <<Entry(t, "reset_gpio", "request_input", l, 0, ok)>>
                               ELSE <<>>)]
            /\ IF ok
               THEN /\ line' = Requested(line, l, t, "in", 0, FALSE)
                    /\ pc' = [pc EXCEPT ![t] = "rg_rel"]
                    /\ loc' = [loc EXCEPT ![t].l = l]
               ELSE /\ line' = line
                    /\ loc' = [loc EXCEPT ![t].i = @ + 1,
                                          ![t].l = IF got THEN l ELSE NULL]
                    /\ pc' = [pc EXCEPT ![t] = "rg_close"]
    /\ UNCHANGED <<cfgVars, CHIP, registered, events, exitVars, closeCalls, sleepVars>>

\* reset_gpio, the loop head: l = gpiod_chip_get_line(CHIP, pins[i]) and
\* gpiod_line_request_input(l, "line"); a failure of either is a warning and
\* the loop continues
ResetRequestInput(t) ==
    /\ Running(t) /\ pc[t] = "rg_get"
    /\ LET l == pins[loc[t].i + 1] IN
       \E got \in BOOLEAN, f \in BOOLEAN :
         /\ (~got \/ f) => MayFail
         /\ f => (got /\ ~line[l].req)
         /\ faults' = IF ~got \/ f THEN faults + 1 ELSE faults
         /\ LET ok == got /\ ~f /\ ~line[l].req IN
            /\ log' = [log EXCEPT ![t] =
                         @ \o <<Entry(t, "reset_gpio", "get_line", l, 0, got)>>
                           \o (IF got
                               THEN <<Entry(t, "reset_gpio", "request_input", l, 0, ok)>>
                               ELSE <<>>)]
            /\ IF ok
               THEN /\ line' = Requested(line, l, t, "in", 0, FALSE)
                    /\ pc' = [pc EXCEPT ![t] = "rg_rel"]
                    /\ loc' = [loc EXCEPT ![t].l = l]
               ELSE /\ line' = line
                    /\ loc' = [loc EXCEPT ![t].i = @ + 1,
                                          ![t].l = IF got THEN l ELSE NULL]
                    /\ pc' = [pc EXCEPT ![t] = IF loc[t].i + 1 < NPins THEN "rg_get" ELSE "rg_close"]
    /\ UNCHANGED <<cfgVars, CHIP, registered, events, exitVars, closeCalls, sleepVars>>

\* reset_gpio, gpiod_line_release(l) and the loop's i++
ResetRelease(t) ==
    /\ Running(t) /\ pc[t] = "rg_rel"
    /\ line' = Released(line, loc[t].l)
    /\ log' = [log EXCEPT ![t] = Append(@,
                 Entry(t, "reset_gpio", "release", loc[t].l, 0, TRUE))]
    /\ loc' = [loc EXCEPT ![t].i = @ + 1]
    /\ pc' = [pc EXCEPT ![t] = IF loc[t].i + 1 < NPins THEN "rg_get" ELSE "rg_close"]
    /\ UNCHANGED <<cfgVars, CHIP, registered, events, exitVars, closeCalls, faults, sleepVars>>

\* reset_gpio, gpiod_chip_close(CHIP); the handler returns and exit() goes
\* on, with the next registered handler if there is one
ResetClose(t) ==
    /\ Running(t) /\ pc[t] = "rg_close"
    /\ log' = [log EXCEPT ![t] = Append(@, Entry(t, "reset_gpio", "chip_close", NULL, 0, TRUE))]
    /\ CHIP' = "closed"
    /\ closeCalls' = closeCalls + 1
    /\ IF loc[t].todo > 0
       THEN /\ pc' = [pc EXCEPT ![t] = "rg_get"]
            /\ loc' = [loc EXCEPT ![t].todo = @ - 1, ![t].i = 0, ![t].l = NULL]
            /\ resetCalls' = resetCalls + 1
       ELSE /\ pc' = [pc EXCEPT ![t] = "_exit"]
            /\ loc' = loc
            /\ resetCalls' = resetCalls
    /\ UNCHANGED <<cfgVars, registered, hwVars, exiting, ended, status, faults, sleepVars>>

\* exit() has run the handlers: the process ends, whatever the other threads do
ProcessEnd(t) ==
    /\ Running(t) /\ pc[t] = "_exit"
    /\ ended' = TRUE
    /\ UNCHANGED <<cfgVars, CHIP, registered, hwVars, exiting, status, resetCalls,
                   closeCalls, faults, pc, loc, sleepVars, log>>

\* ------------------------------------------------------------------ main

\* MainOpen without the test of the result: main goes on with a NULL chip
MainOpenUnchecked ==
    /\ Running(0) /\ pc[0] = "open"
    /\ \E ok \in BOOLEAN :
         /\ ok \/ MayFail
         /\ faults' = IF ok THEN faults ELSE faults + 1
         /\ CHIP' = IF ok THEN "open" ELSE "NULL"
         /\ log' = [log EXCEPT ![0] = Append(@, Entry(0, "main", "chip_open", NULL, 0, ok))]
         /\ pc' = [pc EXCEPT ![0] = IF prog = "gpio3" THEN "atexit" ELSE "create1"]
         /\ loc' = loc
    /\ UNCHANGED <<cfgVars, registered, hwVars, exitVars, closeCalls, sleepVars>>

\* CHIP = gpiod_chip_open_by_name(CHIP_NAME)
MainOpen ==
    /\ Running(0) /\ pc[0] = "open"
    /\ \E ok \in BOOLEAN :
         /\ ok \/ MayFail
         /\ faults' = IF ok THEN faults ELSE faults + 1
         /\ CHIP' = IF ok THEN "open" ELSE "NULL"
         /\ log' = [log EXCEPT ![0] = Append(@, Entry(0, "main", "chip_open", NULL, 0, ok))]
         /\ pc' = [pc EXCEPT ![0] = IF ~ok THEN "fatal"
                                    ELSE IF prog = "gpio3" THEN "atexit" ELSE "create1"]
         /\ loc' = [loc EXCEPT ![0].site = IF ok THEN @ ELSE "open"]
    /\ UNCHANGED <<cfgVars, registered, hwVars, exitVars, closeCalls, sleepVars>>

\* atexit(reset_gpio) called twice
MainAtexitTwice ==
    /\ Running(0) /\ pc[0] = "atexit"
    /\ registered' = registered + 2
    /\ pc' = [pc EXCEPT ![0] = "create1"]
    /\ UNCHANGED <<cfgVars, CHIP, hwVars, exitVars, closeCalls, faults, loc, sleepVars, log>>

\* atexit(reset_gpio)
MainAtexit ==
    /\ Running(0) /\ pc[0] = "atexit"
    /\ registered' = registered + 1
    /\ pc' = [pc EXCEPT ![0] = "create1"]
    /\ UNCHANGED <<cfgVars, CHIP, hwVars, exitVars, closeCalls, faults, loc, sleepVars, log>>

\* pthread_create(&all_threads[all_threads_index++], NULL, ...) for thread t
MainCreate(t) ==
    /\ Running(0) /\ pc[0] = (IF t = 1 THEN "create1" ELSE "create2")
    /\ \E ok \in BOOLEAN :
         /\ ok \/ MayFail
         /\ faults' = IF ok THEN faults ELSE faults + 1
         /\ pc' = [pc EXCEPT ![0] = IF ~ok THEN "fatal"
                                    ELSE IF t = 1 THEN "create2" ELSE "join1",
                             ![t] = IF ~ok THEN @
                                    ELSE IF Kind(t) = "toggler" THEN "get" ELSE "r_get"]
         /\ loc' = [loc EXCEPT ![0].site =
                       IF ok THEN @ ELSE IF t = 1 THEN "create1" ELSE "create2"]
    /\ UNCHANGED <<cfgVars, CHIP, registered, hwVars, exitVars, closeCalls, sleepVars, log>>

\* The join loop without the wait: main goes on while thread t still runs
MainJoinNoWait(t) ==
    /\ Running(0) /\ pc[0] = (IF t = 1 THEN "join1" ELSE "join2")
    /\ pc' = [pc EXCEPT ![0] = IF t = 1 THEN "join2"
                               ELSE IF prog = "gpio3" THEN "return" ELSE "close"]
    /\ UNCHANGED <<cfgVars, CHIP, registered, hwVars, exitVars, closeCalls, faults,
                   loc, sleepVars, log>>

\* pthread_join(all_threads[i], NULL)
MainJoin(t) ==
    /\ Running(0) /\ pc[0] = (IF t = 1 THEN "join1" ELSE "join2")
    /\ pc[t] = "done"
    /\ pc' = [pc EXCEPT ![0] = IF t = 1 THEN "join2"
                               ELSE IF prog = "gpio3" THEN "return" ELSE "close"]
    /\ UNCHANGED <<cfgVars, CHIP, registered, hwVars, exitVars, closeCalls, faults,
                   loc, sleepVars, log>>

\* gpiod_chip_close(chip) of the mains that close the chip themselves
MainClose ==
    /\ Running(0) /\ pc[0] = "close"
    /\ log' = [log EXCEPT ![0] = Append(@, Entry(0, "main", "chip_close", NULL, 0, TRUE))]
    /\ CHIP' = "closed"
    /\ closeCalls' = closeCalls + 1
    /\ pc' = [pc EXCEPT ![0] = "return"]
    /\ UNCHANGED <<cfgVars, registered, hwVars, exitVars, faults, loc, sleepVars>>

\* return 0: exit(0)
MainReturn ==
    /\ Running(0) /\ pc[0] = "return"
    /\ CallExit(0, 0)
    /\ UNCHANGED <<cfgVars, CHIP, registered, hwVars, ended, closeCalls, faults,
                   sleepVars, log>>


\* ------------------------------------------------------------ the Toggler
\* issuer_thread of gpio2 and gpio3, led_thread of gpio1

\* Value with the test inverted: (cycle & 0x1) == 0
ValueInverted(cycle) == IF cycle % 2 = 0 THEN 1 ELSE 0

\* int value = (cycle & 0x1) != 0
Value(cycle) == IF cycle % 2 # 0 THEN 1 ELSE 0

\* Where a task goes when its for loop is left.
AfterLoop(t) ==
    IF prog = "gpio3" THEN "terminate"
    ELSE IF Kind(t) = "toggler" THEN "final_set" ELSE "rfinal_set"

\* A failed call: the branch that ends in error() is entered.
Fail(t, site) ==
    /\ pc' = [pc EXCEPT ![t] = "fatal"]
    /\ loc' = [loc EXCEPT ![t].site = site]

\* issuer = gpiod_chip_get_line(chip, args->line_id), at entry and (gpio2)
\* again after the release
TogGetLine(t) ==
    /\ Running(t) /\ Kind(t) = "toggler" /\ pc[t] \in {"get", "get2"}
    /\ \E ok \in BOOLEAN :
         /\ ok \/ MayFail
         /\ faults' = IF ok THEN faults ELSE faults + 1
         /\ log' = [log EXCEPT ![t] = Append(@, Entry(t, Fn(t), "get_line", line_id(t), 0, ok))]
         /\ IF ok
            THEN /\ loc' = [loc EXCEPT ![t].issuer = line_id(t)]
                 /\ pc' = [pc EXCEPT ![t] = IF pc[t] = "get" THEN "req_out" ELSE "req_in"]
            ELSE /\ loc' = [loc EXCEPT ![t].issuer = NULL, ![t].site = pc[t]]
                 /\ pc' = [pc EXCEPT ![t] = "fatal"]
    /\ UNCHANGED <<cfgVars, CHIP, registered, hwVars, exitVars, closeCalls, sleepVars>>

\* gpiod_line_request_output(issuer, name, 0), then the loop's cycle = 0
TogRequestOutput(t) ==
    /\ Running(t) /\ Kind(t) = "toggler" /\ pc[t] = "req_out"
    /\ LET l == loc[t].issuer IN
       \E f \in BOOLEAN :
         /\ f => (MayFail /\ ~line[l].req)
         /\ faults' = IF f THEN faults + 1 ELSE faults
         /\ LET ok == ~f /\ ~line[l].req IN
            /\ log' = [log EXCEPT ![t] = Append(@, Entry(t, Fn(t), "request_output", l, 0, ok))]
            /\ IF ok
               THEN /\ line' = Requested(line, l, t, "out", 0, FALSE)
                    /\ events' = events + Edges(line, l, 0)
                    /\ loc' = [loc EXCEPT ![t].cycle = 0]
                    /\ pc' = [pc EXCEPT ![t] = IF 0 < count[t] THEN "set" ELSE AfterLoop(t)]
               ELSE /\ UNCHANGED hwVars
                    /\ Fail(t, "req_out")
    /\ UNCHANGED <<cfgVars, CHIP, registered, exitVars, closeCalls, sleepVars>>

\* d = &duration; r = &remaining; gpiod_line_set_value(issuer, value)
TogSetValue(t) ==
    /\ Running(t) /\ Kind(t) = "toggler" /\ pc[t] = "set"
    /\ LET l == loc[t].issuer
           value == Value(loc[t].cycle)
       IN
       \E ok \in BOOLEAN :
         /\ ok \/ MayFail
         /\ faults' = IF ok THEN faults ELSE faults + 1
         /\ log' = [log EXCEPT ![t] = Append(@, Entry(t, Fn(t), "set_value", l, value, ok))]
         /\ IF ok
            THEN /\ line' = [line EXCEPT ![l].level = value]
                 /\ events' = events + Edges(line, l, value)
                 /\ loc' = [loc EXCEPT ![t].d = "duration", ![t].r = "remaining"]
                 /\ pc' = [pc EXCEPT ![t] = "sleep"]
            ELSE /\ UNCHANGED hwVars
                 /\ loc' = [loc EXCEPT ![t].d = "duration", ![t].r = "remaining",
                                       ![t].site = "set"]
                 /\ pc' = [pc EXCEPT ![t] = "fatal"]
    /\ slept' = [slept EXCEPT ![t] = 0]
    /\ UNCHANGED <<cfgVars, CHIP, registered, exitVars, closeCalls, intr>>

\* Resume without d = r: the next nanosleep asks for the whole duration again
ResumeFromStart(lc, left) ==
    [lc EXCEPT ![lc.r] = left, !.r = "remaining_again"]

\* case EINTR: nanosleep stored what was left in *r; d = r; r = &remaining_again
Resume(lc, left) ==
    [lc EXCEPT ![lc.r] = left, !.d = lc.r, !.r = "remaining_again"]

\* TogSleep with the loop test cycle <= args->count: one cycle too many
TogSleepOneMore(t) ==
    /\ Running(t) /\ Kind(t) = "toggler" /\ pc[t] = "sleep"
    /\ LET req == loc[t][loc[t].d] IN
       \/ /\ slept' = [slept EXCEPT ![t] = @ + req]
          /\ loc' = [loc EXCEPT ![t].cycle = @ + 1]
          /\ pc' = [pc EXCEPT ![t] =
                      IF loc[t].cycle + 1 <= count[t] THEN "set" ELSE AfterLoop(t)]
          /\ UNCHANGED <<intr, faults>>
       \/ /\ MayInterrupt
          /\ \E elapsed \in 0..(req - 1) :
               /\ slept' = [slept EXCEPT ![t] = @ + elapsed]
               /\ loc' = [loc EXCEPT ![t] = Resume(@, req - elapsed)]
          /\ intr' = intr + 1
          /\ UNCHANGED <<pc, faults>>
       \/ /\ MayFail
          /\ faults' = faults + 1
          /\ \E errno \in {"sleep_EFAULT", "sleep_EINVAL", "sleep_other"} : Fail(t, errno)
          /\ UNCHANGED sleepVars
    /\ UNCHANGED <<cfgVars, CHIP, registered, hwVars, exitVars, closeCalls, log>>

\* nanosleep(d, r) inside do { done = 1; ... } while (!done), and the for
\* loop's cycle++ when the sleep is over
TogSleep(t) ==
    /\ Running(t) /\ Kind(t) = "toggler" /\ pc[t] = "sleep"
    /\ LET req == loc[t][loc[t].d] IN
       \/ /\ slept' = [slept EXCEPT ![t] = @ + req]
          /\ loc' = [loc EXCEPT ![t].cycle = @ + 1]
          /\ pc' = [pc EXCEPT ![t] =
                      IF loc[t].cycle + 1 < count[t] THEN "set" ELSE AfterLoop(t)]
          /\ UNCHANGED <<intr, faults>>
       \/ /\ MayInterrupt
          /\ \E elapsed \in 0..(req - 1) :
               /\ slept' = [slept EXCEPT ![t] = @ + elapsed]
               /\ loc' = [loc EXCEPT ![t] = Resume(@, req - elapsed)]
          /\ intr' = intr + 1
          /\ UNCHANGED <<pc, faults>>
       \/ /\ MayFail
          /\ faults' = faults + 1
          /\ \E errno \in {"sleep_EFAULT", "sleep_EINVAL", "sleep_other"} : Fail(t, errno)
          /\ UNCHANGED sleepVars
    /\ UNCHANGED <<cfgVars, CHIP, registered, hwVars, exitVars, closeCalls, log>>

\* gpiod_line_set_value(issuer, 0) after the loop ("avoid useless current drain")
TogFinalSet(t) ==
    /\ Running(t) /\ Kind(t) = "toggler" /\ pc[t] = "final_set"
    /\ LET l == loc[t].issuer IN
       \E ok \in BOOLEAN :
         /\ ok \/ MayFail
         /\ faults' = IF ok THEN faults ELSE faults + 1
         /\ log' = [log EXCEPT ![t] = Append(@, Entry(t, Fn(t), "final_set_value", l, 0, ok))]
         /\ IF ok
            THEN /\ line' = [line EXCEPT ![l].level = 0]
                 /\ events' = events + Edges(line, l, 0)
                 /\ pc' = [pc EXCEPT ![t] = "release"]
                 /\ loc' = loc
            ELSE /\ UNCHANGED hwVars
                 /\ Fail(t, "final_set")
    /\ UNCHANGED <<cfgVars, CHIP, registered, exitVars, closeCalls, sleepVars>>

\* TogRelease without the release that follows the input request: the task
\* returns with the line still requested
TogReleaseForgotten(t) ==
    /\ Running(t) /\ Kind(t) = "toggler" /\ pc[t] \in {"release", "release2"}
    /\ line' = IF pc[t] = "release2" THEN line ELSE Released(line, loc[t].issuer)
    /\ log' = IF pc[t] = "release2" THEN log
              ELSE [log EXCEPT ![t] = Append(@, Entry(t, Fn(t), "release", loc[t].issuer, 0, TRUE))]
    /\ pc' = [pc EXCEPT ![t] =
                IF prog = "gpio2" /\ pc[t] = "release" THEN "get2" ELSE "done"]
    /\ UNCHANGED <<cfgVars, CHIP, registered, events, exitVars, closeCalls, faults,
                   loc, sleepVars>>

\* gpiod_line_release(issuer): after the loop, and (gpio2) after the input request
TogRelease(t) ==
    /\ Running(t) /\ Kind(t) = "toggler" /\ pc[t] \in {"release", "release2"}
    /\ line' = Released(line, loc[t].issuer)
    /\ log' = [log EXCEPT ![t] = Append(@, Entry(t, Fn(t), "release", loc[t].issuer, 0, TRUE))]
    /\ pc' = [pc EXCEPT ![t] =
                IF prog = "gpio2" /\ pc[t] = "release" THEN "get2" ELSE "done"]
    /\ UNCHANGED <<cfgVars, CHIP, registered, events, exitVars, closeCalls, faults,
                   loc, sleepVars>>

\* gpiod_line_request_input(issuer, args->name): gpio2's safety measure
TogRequestInput(t) ==
    /\ Running(t) /\ Kind(t) = "toggler" /\ pc[t] = "req_in"
    /\ LET l == loc[t].issuer IN
       \E f \in BOOLEAN :
         /\ f => (MayFail /\ ~line[l].req)
         /\ faults' = IF f THEN faults + 1 ELSE faults
         /\ LET ok == ~f /\ ~line[l].req IN
            /\ log' = [log EXCEPT ![t] = Append(@, Entry(t, Fn(t), "request_input", l, 0, ok))]
            /\ IF ok
               THEN /\ line' = Requested(line, l, t, "in", 0, FALSE)
                    /\ pc' = [pc EXCEPT ![t] = "release2"]
                    /\ loc' = loc
               ELSE /\ line' = line
                    /\ Fail(t, "req_in")
    /\ UNCHANGED <<cfgVars, CHIP, registered, events, exitVars, closeCalls, sleepVars>>

\* issuer_thread_terminate(&resource) / receiver_thread_terminate(&resource);
\* return NULL
Terminate(t) ==
    /\ Running(t) /\ pc[t] = "terminate"
    /\ LET hs == IF Kind(t) = "toggler" THEN issuer_thread_terminate(loc[t])
                 ELSE receiver_thread_terminate(loc[t])
       IN /\ line' = ReleasedAll(line, hs)
          /\ events' = IF GPIO_21 \in {hs[k] : k \in 1..Len(hs)} THEN 0 ELSE events
          /\ log' = [log EXCEPT ![t] = @ \o ReleaseEntries(t, Terminator(t), line, hs)]
    /\ pc' = [pc EXCEPT ![t] = "done"]
    /\ UNCHANGED <<cfgVars, CHIP, registered, exitVars, closeCalls, faults, loc, sleepVars>>

\* -------------------------------------------------------------- the Relay
\* receiver_thread of gpio2 and gpio3

\* state = ~state: the bitwise complement in place of the logical negation
NotBitwise(state) == -state - 1

\* state = !state
Not(state) == IF state = 0 THEN 1 ELSE 0

\* receiver = gpiod_chip_get_line(chip, args->receiver_line_id)
RelGetReceiver(t) ==
    /\ Running(t) /\ Kind(t) = "relay" /\ pc[t] = "r_get"
    /\ \E ok \in BOOLEAN :
         /\ ok \/ MayFail
         /\ faults' = IF ok THEN faults ELSE faults + 1
         /\ log' = [log EXCEPT ![t] = Append(@,
                      Entry(t, Fn(t), "get_line", receiver_line_id, 0, ok))]
         /\ IF ok
            THEN /\ loc' = [loc EXCEPT ![t].receiver = receiver_line_id]
                 /\ pc' = [pc EXCEPT ![t] = "c_get"]
            ELSE /\ loc' = [loc EXCEPT ![t].receiver = NULL, ![t].site = "r_get"]
                 /\ pc' = [pc EXCEPT ![t] = "fatal"]
    /\ UNCHANGED <<cfgVars, CHIP, registered, hwVars, exitVars, closeCalls, sleepVars>>

\* controller = gpiod_chip_get_line(chip, args->controller_line_id);
\* if (NULL == receiver) error(...): the test reads receiver, not controller
RelGetController(t) ==
    /\ Running(t) /\ Kind(t) = "relay" /\ pc[t] \in {"c_get", "c_get2"}
    /\ \E ok \in BOOLEAN :
         /\ ok \/ MayFail
         /\ faults' = IF ok THEN faults ELSE faults + 1
         /\ log' = [log EXCEPT ![t] = Append(@,
                      Entry(t, Fn(t), "get_line", controller_line_id, 0, ok))]
         /\ IF loc[t].receiver = NULL
            THEN /\ loc' = [loc EXCEPT ![t].controller = IF ok THEN controller_line_id ELSE NULL,
                                       ![t].site = pc[t]]
                 /\ pc' = [pc EXCEPT ![t] = "fatal"]
            ELSE /\ loc' = [loc EXCEPT ![t].controller = IF ok THEN controller_line_id ELSE NULL]
                 /\ pc' = [pc EXCEPT ![t] = IF pc[t] = "c_get" THEN "c_req" ELSE "c_req_in"]
    /\ UNCHANGED <<cfgVars, CHIP, registered, hwVars, exitVars, closeCalls, sleepVars>>

\* gpiod_line_request_output(controller, "controller", 0)
RelRequestOutput(t) ==
    /\ Running(t) /\ Kind(t) = "relay" /\ pc[t] = "c_req"
    /\ LET l == loc[t].controller IN
       IF l = NULL
       THEN /\ pc' = [pc EXCEPT ![t] = "segv"]
            /\ log' = [log EXCEPT ![t] = Append(@, Entry(t, Fn(t), "request_output", l, 0, FALSE))]
            /\ UNCHANGED <<hwVars, faults, loc>>
       ELSE \E f \in BOOLEAN :
         /\ f => (MayFail /\ ~line[l].req)
         /\ faults' = IF f THEN faults + 1 ELSE faults
         /\ LET ok == ~f /\ ~line[l].req IN
            /\ log' = [log EXCEPT ![t] = Append(@, Entry(t, Fn(t), "request_output", l, 0, ok))]
            /\ IF ok
               THEN /\ line' = Requested(line, l, t, "out", 0, FALSE)
                    /\ events' = events + Edges(line, l, 0)
                    /\ pc' = [pc EXCEPT ![t] = "r_req"]
                    /\ loc' = loc
               ELSE /\ UNCHANGED hwVars
                    /\ Fail(t, "c_req")
    /\ UNCHANGED <<cfgVars, CHIP, registered, exitVars, closeCalls, sleepVars>>

\* gpiod_line_request_both_edges_events(receiver, "receiver"), then cycle = 0
RelRequestEdges(t) ==
    /\ Running(t) /\ Kind(t) = "relay" /\ pc[t] = "r_req"
    /\ LET l == loc[t].receiver IN
       \E f \in BOOLEAN :
         /\ f => (MayFail /\ ~line[l].req)
         /\ faults' = IF f THEN faults + 1 ELSE faults
         /\ LET ok == ~f /\ ~line[l].req IN
            /\ log' = [log EXCEPT ![t] = Append(@, Entry(t, Fn(t), "request_edges", l, 0, ok))]
            /\ IF ok
               THEN /\ line' = Requested(line, l, t, "in", 0, TRUE)
                    /\ events' = 0
                    /\ loc' = [loc EXCEPT ![t].cycle = 0]
                    /\ pc' = [pc EXCEPT ![t] = IF 0 < count[t] THEN "wait" ELSE AfterLoop(t)]
               ELSE /\ UNCHANGED hwVars
                    /\ Fail(t, "r_req")
    /\ UNCHANGED <<cfgVars, CHIP, registered, exitVars, closeCalls, sleepVars>>

\* gpiod_line_event_wait(receiver, NULL): blocks until an event is queued
RelWait(t) ==
    /\ Running(t) /\ Kind(t) = "relay" /\ pc[t] = "wait"
    /\ \E ok \in BOOLEAN :
         /\ IF ok THEN events > 0 ELSE MayFail
         /\ faults' = IF ok THEN faults ELSE faults + 1
         /\ log' = [log EXCEPT ![t] = Append(@, Entry(t, Fn(t), "event_wait", loc[t].receiver, 0, ok))]
         /\ IF ok
            THEN pc' = [pc EXCEPT ![t] = "read"] /\ loc' = loc
            ELSE Fail(t, "wait")
    /\ UNCHANGED <<cfgVars, CHIP, registered, hwVars, exitVars, closeCalls, sleepVars>>

\* gpiod_line_event_read(receiver, &event): takes one event off the queue
RelRead(t) ==
    /\ Running(t) /\ Kind(t) = "relay" /\ pc[t] = "read"
    /\ \E ok \in BOOLEAN :
         /\ IF ok THEN events > 0 ELSE MayFail
         /\ faults' = IF ok THEN faults ELSE faults + 1
         /\ log' = [log EXCEPT ![t] = Append(@, Entry(t, Fn(t), "event_read", loc[t].receiver, 0, ok))]
         /\ IF ok
            THEN /\ events' = events - 1
                 /\ pc' = [pc EXCEPT ![t] = "flip"]
                 /\ loc' = loc
            ELSE /\ events' = events
                 /\ Fail(t, "read")
    /\ UNCHANGED <<cfgVars, CHIP, registered, line, exitVars, closeCalls, sleepVars>>

\* state = !state; gpiod_line_set_value(controller, state); the loop's cycle++
RelFlip(t) ==
    /\ Running(t) /\ Kind(t) = "relay" /\ pc[t] = "flip"
    /\ LET l == loc[t].controller
           state == Not(loc[t].state)
       IN
       \E ok \in BOOLEAN :
         /\ ok \/ MayFail
         /\ faults' = IF ok THEN faults ELSE faults + 1
         /\ log' = [log EXCEPT ![t] = Append(@, Entry(t, Fn(t), "set_value", l, state, ok))]
         /\ IF ok
            THEN /\ line' = [line EXCEPT ![l].level = state]
                 /\ loc' = [loc EXCEPT ![t].state = state, ![t].cycle = @ + 1]
                 /\ pc' = [pc EXCEPT ![t] =
                             IF loc[t].cycle + 1 < count[t] THEN "wait" ELSE AfterLoop(t)]
            ELSE /\ line' = line
                 /\ loc' = [loc EXCEPT ![t].state = state, ![t].site = "flip"]
                 /\ pc' = [pc EXCEPT ![t] = "fatal"]
    /\ UNCHANGED <<cfgVars, CHIP, registered, events, exitVars, closeCalls, sleepVars>>

\* gpiod_line_set_value(controller, 0) after the loop (gpio2)
RelFinalSet(t) ==
    /\ Running(t) /\ Kind(t) = "relay" /\ pc[t] = "rfinal_set"
    /\ LET l == loc[t].controller IN
       \E ok \in BOOLEAN :
         /\ ok \/ MayFail
         /\ faults' = IF ok THEN faults ELSE faults + 1
         /\ log' = [log EXCEPT ![t] = Append(@, Entry(t, Fn(t), "final_set_value", l, 0, ok))]
         /\ IF ok
            THEN /\ line' = [line EXCEPT ![l].level = 0]
                 /\ pc' = [pc EXCEPT ![t] = "release_r"]
                 /\ loc' = loc
            ELSE /\ line' = line
                 /\ Fail(t, "rfinal_set")
    /\ UNCHANGED <<cfgVars, CHIP, registered, events, exitVars, closeCalls, sleepVars>>

\* gpiod_line_release(receiver); gpiod_line_release(controller); and the
\* last gpiod_line_release(controller) before return NULL (gpio2)
RelRelease(t) ==
    /\ Running(t) /\ Kind(t) = "relay" /\ pc[t] \in {"release_r", "release_c", "release_c2"}
    /\ LET l == IF pc[t] = "release_r" THEN loc[t].receiver ELSE loc[t].controller IN
       /\ line' = Released(line, l)
       /\ events' = IF l = GPIO_21 THEN 0 ELSE events
       /\ log' = [log EXCEPT ![t] = Append(@, Entry(t, Fn(t), "release", l, 0, TRUE))]
    /\ pc' = [pc EXCEPT ![t] = CASE pc[t] = "release_r" -> "release_c"
                                 [] pc[t] = "release_c" -> "c_get2"
                                 [] OTHER -> "done"]
    /\ UNCHANGED <<cfgVars, CHIP, registered, exitVars, closeCalls, faults, loc, sleepVars>>

\* gpiod_line_request_input(controller, args->controller_name) (gpio2)
RelRequestInput(t) ==
    /\ Running(t) /\ Kind(t) = "relay" /\ pc[t] = "c_req_in"
    /\ LET l == loc[t].controller IN
       IF l = NULL
       THEN /\ pc' = [pc EXCEPT ![t] = "segv"]
            /\ log' = [log EXCEPT ![t] = Append(@, Entry(t, Fn(t), "request_input", l, 0, FALSE))]
            /\ UNCHANGED <<line, faults, loc>>
       ELSE \E f \in BOOLEAN :
         /\ f => (MayFail /\ ~line[l].req)
         /\ faults' = IF f THEN faults + 1 ELSE faults
         /\ LET ok == ~f /\ ~line[l].req IN
            /\ log' = [log EXCEPT ![t] = Append(@, Entry(t, Fn(t), "request_input", l, 0, ok))]
            /\ IF ok
               THEN /\ line' = Requested(line, l, t, "in", 0, FALSE)
                    /\ pc' = [pc EXCEPT ![t] = "release_c2"]
                    /\ loc' = loc
               ELSE /\ line' = line
                    /\ Fail(t, "c_req_in")
    /\ UNCHANGED <<cfgVars, CHIP, registered, events, exitVars, closeCalls, sleepVars>>

\* ------------------------------------------------------ the specification

Next ==
    \/ MainOpen
    \/ MainAtexit
    \/ \E t \in Tasks : MainCreate(t)
    \/ \E t \in Tasks : MainJoin(t)
    \/ MainClose
    \/ MainReturn
    \/ \E t \in Tasks : TogGetLine(t)
    \/ \E t \in Tasks : TogRequestOutput(t)
    \/ \E t \in Tasks : TogSetValue(t)
    \/ \E t \in Tasks : TogSleep(t)
    \/ \E t \in Tasks : TogFinalSet(t)
    \/ \E t \in Tasks : TogRelease(t)
    \/ \E t \in Tasks : TogRequestInput(t)
    \/ \E t \in Tasks : Terminate(t)
    \/ \E t \in Tasks : RelGetReceiver(t)
    \/ \E t \in Tasks : RelGetController(t)
    \/ \E t \in Tasks : RelRequestOutput(t)
    \/ \E t \in Tasks : RelRequestEdges(t)
    \/ \E t \in Tasks : RelWait(t)
    \/ \E t \in Tasks : RelRead(t)
    \/ \E t \in Tasks : RelFlip(t)
    \/ \E t \in Tasks : RelFinalSet(t)
    \/ \E t \in Tasks : RelRelease(t)
    \/ \E t \in Tasks : RelRequestInput(t)
    \/ \E t \in Threads : Fatal(t)
    \/ \E t \in Threads : Segv(t)
    \/ \E t \in Threads : ResetRequestInput(t)
    \/ \E t \in Threads : ResetRelease(t)
    \/ \E t \in Threads : ResetClose(t)
    \/ \E t \in Threads : ProcessEnd(t)

Spec == Init /\ [][Next]_vars

\* The steps of one thread: main, or the task function thread t runs, with
\* error(), exit() and reset_gpio when the thread is the one that runs them.
ThreadStep(t) ==
    \/ /\ t = 0
       /\ \/ MainOpen
          \/ MainAtexit
          \/ \E u \in Tasks : MainCreate(u)
          \/ \E u \in Tasks : MainJoin(u)
          \/ MainClose
          \/ MainReturn
    \/ /\ t \in Tasks
       /\ \/ TogGetLine(t) \/ TogRequestOutput(t) \/ TogSetValue(t) \/ TogSleep(t)
          \/ TogFinalSet(t) \/ TogRelease(t) \/ TogRequestInput(t) \/ Terminate(t)
          \/ RelGetReceiver(t) \/ RelGetController(t) \/ RelRequestOutput(t)
          \/ RelRequestEdges(t) \/ RelWait(t) \/ RelRead(t) \/ RelFlip(t)
          \/ RelFinalSet(t) \/ RelRelease(t) \/ RelRequestInput(t)
    \/ Fatal(t) \/ Segv(t)
    \/ ResetRequestInput(t) \/ ResetRelease(t) \/ ResetClose(t) \/ ProcessEnd(t)

\* The two programs with an issuer_thread, gpio3 with a receiver that is
\* given no cycle.
InitFair ==
    /\ Init
    /\ prog # "gpio1"
    /\ prog = "gpio3" => count[2] = 0

\* These programs under a scheduler that lets every thread that can run take
\* its next step.
SpecFair ==
    InitFair /\ [][Next]_vars /\ \A t \in Threads : WF_vars(ThreadStep(t))


\* ---------------------------------------- reset_gpio called more than once
\* The cleanup callback driven by a caller that simulates several
\* terminations: reset_gpio is entered again after it has returned.

InitCleanup ==
    /\ prog = "gpio3"
    /\ count = [t \in Tasks |-> 0]
    /\ CHIP = "open"
    /\ registered = 1
    /\ \E dirs \in [Lines -> {"in", "out"}] :
           line = [l \in Lines |-> [FreeLine EXCEPT !.dir = dirs[l]]]
    /\ events = 0
    /\ exiting = FALSE
    /\ ended = FALSE
    /\ status = -1
    /\ resetCalls = 0
    /\ closeCalls = 0
    /\ faults = 0
    /\ pc = [t \in Threads |-> IF t = 0 THEN "_exit" ELSE "idle"]
    /\ loc = [t \in Threads |-> InitLoc]
    /\ slept = [t \in Threads |-> 0]
    /\ intr = 0
    /\ log = [t \in Threads |-> <<>>]

\* one more simulated termination: reset_gpio()
InvokeReset ==
    /\ Running(0) /\ pc[0] = "_exit"
    /\ resetCalls < MaxInvocations
    /\ resetCalls' = resetCalls + 1
    /\ exiting' = TRUE
    /\ pc' = [pc EXCEPT ![0] = "rg_get"]
    /\ loc' = [loc EXCEPT ![0].i = 0, ![0].l = NULL]
    /\ UNCHANGED <<cfgVars, CHIP, registered, hwVars, ended, status, closeCalls,
                   faults, sleepVars, log>>

NextCleanup ==
    \/ InvokeReset
    \/ ResetRequestInput(0)
    \/ ResetRelease(0)
    \/ ResetClose(0)
    \/ ProcessEnd(0)

SpecCleanup == InitCleanup /\ [][NextCleanup]_vars

\* ================================================================ claims

LineOps == {"get_line", "request_output", "request_input", "request_edges",
            "set_value", "final_set_value", "event_wait", "event_read", "release"}

SetOps == {"set_value", "final_set_value"}

Calls(t, ops) == SelectSeq(log[t], LAMBDA e : e.op \in ops)

\* The indices of log[t] whose call is one of ops.
Where(t, ops) == {k \in 1..Len(log[t]) : log[t][k].op \in ops}

Max(S) == CHOOSE x \in S : \A y \in S : y <= x

Min(S) == CHOOSE x \in S : \A y \in S : x <= y

\* The task has left its for loop in the normal way.
LoopLeft(t) ==
    pc[t] \in {"final_set", "rfinal_set", "release", "release_r", "release_c",
               "get2", "c_get2", "req_in", "c_req_in", "release2", "release_c2",
               "terminate", "done"}

Errored(t) == \E k \in 1..Len(log[t]) : log[t][k].op = "error"

\* C1: every line handle a task acquired is released exactly once on every
\* path: no release is issued for a line the caller does not hold (a second
\* release, or the release of a line whose request failed), a task that
\* returned holds nothing, and nothing is still held when the process has ended.
C1_ExactlyOneRelease ==
    prog # "gpio1" =>
        /\ \A t \in Threads : \A k \in Where(t, {"release"}) : log[t][k].own
        /\ \A t \in Tasks : pc[t] = "done" => \A l \in Lines : line[l].owner # t
        /\ ended => \A l \in Lines : ~line[l].req

\* C2: however often reset_gpio is invoked, the chip is closed at most once
\* and no call is issued on a chip that was already closed.
C2_ResetIdempotent ==
    /\ closeCalls <= 1
    /\ \A k \in 1..Len(log[0]) : log[0][k].chip # "closed"

\* C3: the cleanup callback is entered at most once, and exactly once when
\* the process has ended through exit() with the callback registered: by
\* main's return, by one thread's error(), or by two threads' error() calls
\* that overlap.
C3_CleanupOnce ==
    /\ resetCalls <= 1
    /\ (ended /\ registered > 0 /\ status \in {0, 1}) => resetCalls = 1

\* Two threads called error() and the process has ended with the callback
\* run once.
C3_Witness ==
    /\ ended /\ registered > 0 /\ resetCalls = 1
    /\ \E t, u \in Threads : t # u /\ Errored(t) /\ Errored(u)

\* C4: every line operation is issued while the chip handle is open.
C4_NoLineOpAfterClose ==
    \A t \in Threads : \A k \in Where(t, LineOps) : log[t][k].chip = "open"

\* C5: when the process (the program with the exit hook) has ended through
\* exit(), none of the lines 16, 17, 21 is left in output mode; stated for the
\* runs in which at most one call failed.
C5_NoOutputAfterEnd ==
    (prog = "gpio3" /\ ended /\ registered > 0 /\ status \in {0, 1} /\ faults <= 1) =>
        \A l \in Lines : line[l].dir # "out"

\* C6: the chip handle is never closed twice, it has been closed exactly once
\* when the process has ended through exit() after opening it, and no task
\* function closes it.
C6_ClosedOnce ==
    prog # "gpio1" =>
        /\ closeCalls <= 1
        /\ (ended /\ status \in {0, 1} /\ CHIP # "NULL") => closeCalls = 1
        /\ \A t \in Threads : \A k \in Where(t, {"chip_close"}) :
               log[t][k].by \in {"reset_gpio", "main"}

\* C7: the in-loop set-value calls of a Toggler with count = N write
\* 0, 1, 0, 1, ...: the i-th call (from 0) writes i mod 2, there are never
\* more than N of them, and exactly N once the loop has been left.
C7_Alternation ==
    \A t \in Tasks : Kind(t) = "toggler" =>
        LET s == Calls(t, {"set_value"}) IN
        /\ \A i \in 1..Len(s) : s[i].val = (i - 1) % 2
        /\ Len(s) <= count[t]
        /\ LoopLeft(t) => Len(s) = count[t]

\* A Toggler with count = 3 has left its loop after writing 0, 1, 0.
C7_Witness ==
    \E t \in Tasks :
        /\ Kind(t) = "toggler" /\ count[t] = 3 /\ LoopLeft(t)
        /\ [i \in 1..3 |-> Calls(t, {"set_value"})[i].val] = <<0, 1, 0>>

\* C8: a Relay with count = M that has left its loop consumed exactly M
\* events, one wait and one read each, and its in-loop set-value calls write
\* 1, 0, 1, 0, ...
C8_RelaySequence ==
    \A t \in Tasks : (Kind(t) = "relay" /\ LoopLeft(t)) =>
        LET s == Calls(t, {"set_value"}) IN
        /\ Len(Calls(t, {"event_wait"})) = count[t]
        /\ Len(Calls(t, {"event_read"})) = count[t]
        /\ Len(s) = count[t]
        /\ \A i \in 1..Len(s) : s[i].val = i % 2

\* C9: inside one cycle every nanosleep asks for exactly what is left of the
\* configured duration after the time already slept, whatever the number of
\* EINTR returns, and the next set-value (or the end of the loop) comes only
\* when the whole duration has been slept.
C9_SleepsWholeDuration ==
    \A t \in Tasks : Kind(t) = "toggler" =>
        /\ pc[t] = "sleep" => loc[t][loc[t].d] = loc[t].duration - slept[t]
        /\ (pc[t] = "set" /\ loc[t].cycle > 0) => slept[t] = loc[t].duration
        /\ (LoopLeft(t) /\ count[t] > 0) => slept[t] = loc[t].duration

\* A cycle was interrupted MaxIntr times, the last time with d and r both at
\* remaining_again, and the next cycle is about to start.
C9_Witness ==
    /\ prog # "gpio1" /\ intr >= 3
    /\ pc[1] = "set" /\ loc[1].cycle = 1
    /\ loc[1].d = "remaining_again" /\ loc[1].r = "remaining_again"
    /\ slept[1] = loc[1].duration

\* C10: when a Toggler has run its loop to the end and returned, the last
\* set-value it issued before it released the line wrote level 0.
C10_LastSetIsZero ==
    \A t \in Tasks : (Kind(t) = "toggler" /\ pc[t] = "done") =>
        LET rel == Min(Where(t, {"release"}))
            sets == {k \in Where(t, SetOps) : k < rel}
        IN sets # {} => log[t][Max(sets)].val = 0

\* C11: when a Relay has run its loop to the end and returned, it issued a
\* forced set-value 0 on the controller line after its last in-loop flip and
\* before any release, and it released both the watched line and the
\* controller line.
C11_RelayForcedZero ==
    \A t \in Tasks : (Kind(t) = "relay" /\ pc[t] = "done") =>
        LET rel == Where(t, {"release"}) IN
        /\ \E k \in Where(t, {"final_set_value"}) :
              /\ log[t][k].line = controller_line_id /\ log[t][k].val = 0
              /\ \A j \in Where(t, {"set_value"}) : j < k
              /\ \A j \in rel : k < j
        /\ \E j \in rel : log[t][j].line = receiver_line_id
        /\ \E j \in rel : log[t][j].line = controller_line_id
\* C12: when the process has ended its exit status is 0 or 1: 0 exactly when
\* both tasks returned after their full cycle counts and no thread called
\* error(), and 1 only after a thread printed a diagnostic through error();
\* every failed call of a task or of main that the code treats as fatal has
\* led to such a diagnostic.
C12_ExitStatus ==
    (prog = "gpio3" /\ ended) =>
        /\ status \in {0, 1}
        /\ (status = 0) <=> /\ \A t \in Tasks : pc[t] = "done" /\ LoopLeft(t)
                            /\ \A t \in Threads : ~Errored(t)
        /\ (status = 1) => \E t \in Threads :
                              \E k \in Where(t, {"error"}) : log[t][k].msg # ""
\* The releases of line l that thread t issued in its task function or its
\* terminate function (not as the thread that runs reset_gpio).
TaskReleases(t, l) ==
    {k \in Where(t, {"release"}) : log[t][k].line = l /\ log[t][k].by # "reset_gpio"}

\* C13: in a Relay whose request of the watched line in edge-event mode
\* failed, the controller line is released at most once by the task; once the
\* task has called error() the message names the failed request and the
\* controller line, which the task held, was released exactly once before it;
\* and the process ends with status 1.
C13_EdgeRequestFailure ==
    \A t \in Tasks :
        (Kind(t) = "relay" /\ \E k \in Where(t, {"request_edges"}) : ~log[t][k].ok) =>
            LET rc == TaskReleases(t, controller_line_id) IN
            /\ Cardinality(rc) <= 1
            /\ \A e \in Where(t, {"error"}) :
                  /\ log[t][e].msg = "receiver: cannot set the line's callbacks"
                  /\ Cardinality(rc) = 1
                  /\ \A k \in rc : k < e /\ log[t][k].own
            /\ ended => status = 1

\* The edge request failed, the Relay released the controller line once and
\* called error(), and the process has ended with status 1.
C13_Witness ==
    \E t \in Tasks :
        /\ Kind(t) = "relay" /\ ended /\ status = 1 /\ Errored(t)
        /\ \E k \in Where(t, {"request_edges"}) : ~log[t][k].ok
        /\ Cardinality(TaskReleases(t, controller_line_id)) = 1
\* The calls thread t issued inside reset_gpio, in order.
ResetCalls(t) == SelectSeq(log[t], LAMBDA e : e.by = "reset_gpio")

\* C14: reset_gpio goes through the lines 16, 17, 21 in this order whatever
\* failed before, a line whose input request succeeded is released by the
\* very next call, and when the callback has returned it has attempted the
\* three lines and its last call closed the chip.
C14_ResetAttemptsAll ==
    \A t \in Threads :
        LET c == ResetCalls(t)
            g == SelectSeq(c, LAMBDA e : e.op = "get_line")
        IN
        /\ Len(g) <= NPins
        /\ \A i \in 1..Len(g) : g[i].line = pins[i]
        /\ \A k \in 1..Len(c) :
              (c[k].op = "request_input" /\ c[k].ok) =>
                  IF k = Len(c) THEN pc[t] = "rg_rel"
                  ELSE c[k + 1].op = "release" /\ c[k + 1].line = c[k].line
        /\ \A k \in 1..Len(c) :
              c[k].op = "release" => (k > 1 /\ c[k - 1].op = "request_input" /\ c[k - 1].ok)
        /\ (pc[t] = "rg_close" \/ \E k \in 1..Len(c) : c[k].op = "chip_close")
              => Len(g) = NPins
        /\ (c # <<>> /\ pc[t] = "_exit")
              => (c[Len(c)].op = "chip_close" /\ CHIP = "closed")

\* reset_gpio has returned after its request on line 16 failed: it went on to
\* lines 17 and 21, released one it could request, and closed the chip.
C14_Witness ==
    \E t \in Threads :
        LET c == ResetCalls(t) IN
        /\ pc[t] = "_exit" /\ c # <<>> /\ c[Len(c)].op = "chip_close"
        /\ \E k \in 1..Len(c) :
              c[k].op = "request_input" /\ c[k].line = GPIO_16 /\ ~c[k].ok
        /\ \E k \in 1..Len(c) :
              c[k].op = "release" /\ c[k].line \in {GPIO_17, GPIO_21}
\* C15: no thread issues a request, a set-value, a wait, a read or a release
\* on a line while another thread holds that line.
C15_ExclusiveOwner ==
    \A t \in Threads :
        \A k \in Where(t, LineOps \ {"get_line"}) : ~log[t][k].other
RequestOps == {"request_output", "request_input", "request_edges"}

\* C16: after a request of a line failed in a task, the task issues no
\* release on that line.
C16_NoReleaseAfterFailedAcquire ==
    \A t \in Tasks :
        \A k \in Where(t, RequestOps) :
            (prog # "gpio1" /\ ~log[t][k].ok /\ log[t][k].by # "reset_gpio") =>
                \A j \in TaskReleases(t, log[t][k].line) : j < k

\* C17: issuer_thread_terminate and receiver_thread_terminate release no null
\* entry, release a line only if the task holds it (after a partial
\* acquisition, only what was acquired), and never release one line twice.
C17_TeardownReleasesAcquired ==
    \A t \in Tasks :
        LET td == {k \in Where(t, {"release"}) :
                      log[t][k].by \in {"issuer_thread_terminate",
                                        "receiver_thread_terminate"}}
        IN
        /\ \A k \in td : log[t][k].line # NULL /\ log[t][k].own
        /\ \A j, k \in td : log[t][j].line = log[t][k].line => j = k
\* C18: once a gpiod_chip_get_line of the Relay has failed, the task issues
\* no request, wait, read or set-value any more.
C18_GetFailureIsFatal ==
    \A t \in Tasks : Kind(t) = "relay" =>
        \A k \in Where(t, {"get_line"}) :
            (~log[t][k].ok /\ log[t][k].by = Fn(t)) =>
                \A j \in Where(t, LineOps \ {"get_line", "release"}) : j < k
\* The releases of thread t that end a tenure of a line: the thread held the
\* line and requested nothing afterwards.
FinalReleases(t) ==
    {k \in Where(t, {"release"}) :
        log[t][k].own /\ \A j \in Where(t, RequestOps) : j < k}

\* C19: a Toggler that has returned holds no line, the last call it issued
\* is the release of its line, which it held, and exactly one release ended
\* its run: nothing was issued against the line after it.
C19_ReleasedOnce ==
    \A t \in Tasks : (Kind(t) = "toggler" /\ pc[t] = "done") =>
        /\ \A l \in Lines : line[l].owner # t
        /\ log[t] # <<>>
        /\ LET last == log[t][Len(log[t])] IN
              last.op = "release" /\ last.own /\ last.line = line_id(t)
        /\ Cardinality(FinalReleases(t)) = 1

\* A gpio2 Toggler has returned after its loop, its release, the request as
\* input and the release that ends its run.
C19_Witness ==
    /\ prog = "gpio2" /\ pc[1] = "done" /\ count[1] > 0
    /\ Cardinality(Where(1, {"release"})) = 2
    /\ Cardinality(FinalReleases(1)) = 1
\* C20: main reaches its return only when both tasks have returned, and in
\* the cleanup that a return of main starts no task holds a line and every
\* call reset_gpio issues finds its line free.
C20_CleanupAfterJoin ==
    /\ pc[0] = "return" => \A t \in Tasks : pc[t] = "done"
    /\ (prog = "gpio3" /\ exiting /\ status = 0) =>
          /\ \A t \in Tasks : pc[t] = "done"
          /\ \A l \in Lines : line[l].owner \notin Tasks
          /\ \A k \in 1..Len(log[0]) :
                (log[0][k].by = "reset_gpio" /\ log[0][k].op \in {"get_line", "request_input"})
                    => ~log[0][k].other /\ ~log[0][k].own

\* main returned after both tasks ran their cycles, and the cleanup reset the
\* three lines, each time finding the line free.
C20_Witness ==
    /\ prog = "gpio3" /\ ended /\ status = 0
    /\ count[1] > 0 /\ count[2] > 0
    /\ Len(SelectSeq(ResetCalls(0), LAMBDA e : e.op = "request_input" /\ e.ok)) = NPins
\* C21: the cleanup callback is registered only with the chip opened, a task
\* is started only with the chip opened and (in the program that has the
\* callback) the callback registered, a process whose chip could not be
\* opened ends with status 1 without running the callback, and no call of
\* the callback is issued on a NULL chip.
C21_HookAfterOpen ==
    /\ registered > 0 => CHIP # "NULL"
    /\ \A t \in Tasks :
          pc[t] # "idle" => (CHIP # "NULL" /\ (prog = "gpio3" => registered > 0))
    /\ (ended /\ CHIP = "NULL") => (status = 1 /\ resetCalls = 0)
    /\ \A t \in Threads : \A k \in 1..Len(log[t]) :
          log[t][k].by = "reset_gpio" => log[t][k].chip # "NULL"

\* The chip could not be opened: main printed the diagnostic and the process
\* has ended with status 1, no callback registered, no task started.
C21_Witness ==
    /\ prog = "gpio3" /\ ended /\ status = 1 /\ CHIP = "NULL"
    /\ \E k \in Where(0, {"error"}) : log[0][k].msg = "cannot open the chip"
    /\ registered = 0 /\ \A t \in Tasks : pc[t] = "idle"
\* C22: a Toggler never runs more cycles than its count, and under fair
\* scheduling, with the sleeps of a run interrupted finitely often, it
\* returns after its loop or the process ends.
C22_TogglerTerminates ==
    /\ [](\A t \in Tasks : Kind(t) = "toggler" =>
             /\ loc[t].cycle <= count[t]
             /\ Len(Calls(t, {"set_value"})) <= count[t])
    /\ \A t \in Tasks : <>(Kind(t) = "toggler" => (pc[t] = "done" \/ ended))

\* A Toggler has returned after MaxCount cycles, one of them with an
\* interrupted sleep.
C22_Witness ==
    \E t \in Tasks :
        /\ Kind(t) = "toggler" /\ pc[t] = "done" /\ count[t] = 3
        /\ Len(Calls(t, {"set_value"})) = 3 /\ intr > 0
\* C23: whatever the Relay's state variable held at entry, every in-loop
\* set-value writes 0 or 1 and two consecutive in-loop set-values write
\* different levels.
C23_RelayLevels ==
    \A t \in Tasks : Kind(t) = "relay" =>
        LET s == Calls(t, {"set_value"}) IN
        /\ \A i \in 1..Len(s) : s[i].val \in {0, 1}
        /\ \A i \in 1..(Len(s) - 1) : s[i].val # s[i + 1].val

\* A Relay whose state variable held a nonzero value at entry wrote 0 on the
\* first event and 1 on the second.
C23_Witness ==
    \E t \in Tasks :
        /\ Kind(t) = "relay" /\ LoopLeft(t)
        /\ Len(Calls(t, {"set_value"})) = 2
        /\ [i \in 1..2 |-> Calls(t, {"set_value"})[i].val] = <<0, 1>>
\* C24: in the two-task programs, when the issuer is configured to change
\* the level at least as often as the receiver has cycles (count[1] - 1
\* changes in its loop) and no call fails, the receiver never starves: once
\* the issuer has returned (no level change is to come), a receiver that
\* waits for an event has one queued, so that it leaves its loop and both
\* joins return.
C24_ReceiverNeverStarves ==
    (/\ prog # "gpio1" /\ faults = 0
     /\ count[2] >= 1 /\ count[1] - 1 >= count[2]
     /\ pc[1] = "done" /\ pc[2] = "wait") => events > 0

====
